---- MODULE Spec2Model ----
(***************************************************************************)
(* A model of kolos.dom: the DOMService (src/src/dom.service.ts, the later *)
(* of the two versions in the file, lines 387-916) and the PanelComponent  *)
(* (src/unnamed/part_000) that uses it.                                    *)
(*                                                                         *)
(* The browser is the environment.  One action is one task of the event    *)
(* loop: a dispatched DOM event with every handler the two classes have    *)
(* bound for it, a timer callback, or a call of a public method.           *)
(*                                                                         *)
(* JavaScript values: an optional value (undefined / null / absent) is the *)
(* empty tuple None, a present value v is the one-element tuple <<v>>.     *)
(* A JavaScript string that the code takes apart is a tuple of one-        *)
(* character strings.                                                      *)
(***************************************************************************)
EXTENDS Integers, Sequences, FiniteSets, TLC

VARIABLES
    \* ---- DOMService fields (dom.service.ts 413, 468-483, 527, 579, 593)
    viewport, scroll, visible, pressedKeys, isPointerPressed, idleTime,
    pointerCoords,
    \* ---- the browser: window geometry, what is physically held down, and
    \* ---- what has been observed since (history, read by no handler)
    win, heldPointers, keyLast, ticksSince,
    \* ---- PanelComponent fields (part_000 35-53) and its configuration
    config, state, overflowing, _avatar, _originalParent, _originalAttributes,
    _isDismounted, _listeners,
    \* ---- the document: children of every element, attributes of the node
    kids, attrs,
    \* ---- the host's timer queue and the callbacks the panel has invoked
    timers, cbLog,
    \* ---- history of the panel's operations (read by no handler)
    lastOp, opens, regGen, orig, mid, soa,
    \* ---- the last call of a utility method: its input and its outcome
    callFn, callIn, callOut

svcVars == <<viewport, scroll, visible, pressedKeys, isPointerPressed, idleTime,
             pointerCoords>>
hostVars == <<win, heldPointers, keyLast, ticksSince>>
panelVars == <<config, state, overflowing, _avatar, _originalParent,
               _originalAttributes, _isDismounted, _listeners, kids, attrs,
               timers, cbLog, lastOp, opens, regGen, orig, mid, soa>>
callVars == <<callFn, callIn, callOut>>
vars == <<svcVars, hostVars, panelVars, callVars>>

None == <<>>
Some(v) == <<v>>
IsSome(o) == o # <<>>
Get(o) == o[1]

Max(a, b) == IF a >= b THEN a ELSE b
Min(a, b) == IF a <= b THEN a ELSE b
Range(s) == {s[i] : i \in DOMAIN s}

\* JavaScript a || b on numbers: a when a is truthy (not 0), else b.
JsOr(a, b) == IF a # 0 THEN a ELSE b

(***************************************************************************)
(* Bounds of the model.                                                    *)
(***************************************************************************)
MaxPointers == 2      \* pointers the browser can hold down at once
MaxTicks == 2         \* interval ticks without activity
MaxOpens == 2         \* open() calls that open the panel
MaxPairs == 3         \* name=value pairs of a query string
MaxElems == 2         \* elements of an array, properties of an inner object

IDLE_INTERVAL == 10000

PointerIds == 1 .. MaxPointers
Keys == {17, 65}                \* KEYCODES.CTRL, KEYCODES.A
WinWidths == {2, 3}
WinHeights == {2, 3}
ScrollXs == {0, 1}
ScrollYs == {0, 1}
ClientXs == {0, 1}

(***************************************************************************)
(* DOMService                                                              *)
(***************************************************************************)
Svc == [viewport |-> viewport, scroll |-> scroll, visible |-> visible,
        pressedKeys |-> pressedKeys, isPointerPressed |-> isPointerPressed,
        idleTime |-> idleTime, pointerCoords |-> pointerCoords]

SetSvc(s) ==
    /\ viewport' = s.viewport
    /\ scroll' = s.scroll
    /\ visible' = s.visible
    /\ pressedKeys' = s.pressedKeys
    /\ isPointerPressed' = s.isPointerPressed
    /\ idleTime' = s.idleTime
    /\ pointerCoords' = s.pointerCoords

\* What the browser's properties read for a window w: innerWidth includes the
\* scrollbar, clientWidth does not; the page offset is reported by pageXOffset
\* and by the scrolling element (body in quirks mode, documentElement else).
HostRead(w) ==
    [clientWidth |-> w.w - w.sb, innerWidth |-> w.w,
     clientHeight |-> w.h - w.sb, innerHeight |-> w.h,
     pageXOffset |-> w.x, pageYOffset |-> w.y,
     docScrollLeft |-> IF w.quirks THEN 0 ELSE w.x,
     docScrollTop |-> IF w.quirks THEN 0 ELSE w.y,
     bodyScrollLeft |-> IF w.quirks THEN w.x ELSE 0,
     bodyScrollTop |-> IF w.quirks THEN w.y ELSE 0]

refreshVisible(s) ==
    [s EXCEPT !.visible = [x1 |-> s.scroll.x, x2 |-> s.scroll.x + s.viewport.w,
                           y1 |-> s.scroll.y, y2 |-> s.scroll.y + s.viewport.h]]

refreshViewportStale(s, b) ==
    [s EXCEPT !.viewport = [w |-> Max(b.clientWidth, JsOr(b.innerWidth, 0)),
                            h |-> Max(b.clientHeight, JsOr(b.innerHeight, 0))]]

refreshViewport(s, b) ==
    refreshVisible(
        [s EXCEPT !.viewport = [w |-> Max(b.clientWidth, JsOr(b.innerWidth, 0)),
                                h |-> Max(b.clientHeight, JsOr(b.innerHeight, 0))]])

refreshScroll(s, b) ==
    refreshVisible(
        [s EXCEPT !.scroll =
            [x |-> JsOr(JsOr(b.pageXOffset, b.docScrollLeft), b.bodyScrollLeft),
             y |-> JsOr(JsOr(b.pageYOffset, b.docScrollTop), b.bodyScrollTop)]])

onWindowBlurKeep(s) == s

onWindowBlur(s) == [s EXCEPT !.pressedKeys = {}]

onDocumentKeyDown(s, keyCode) ==
    [s EXCEPT !.pressedKeys = @ \cup {keyCode}, !.idleTime = 0]

onDocumentKeyUp(s, keyCode) == [s EXCEPT !.pressedKeys = @ \ {keyCode}]

isKeyPressed(s, keyCode) == keyCode \in s.pressedKeys

onWindowResize(s, b) == [refreshViewport(s, b) EXCEPT !.idleTime = 0]

onDocumentScroll(s, b) == [refreshScroll(s, b) EXCEPT !.idleTime = 0]

\* onDocumentPointerMove without the idleTime = 0 of line 590.
onDocumentPointerMoveIdle(s, x, y) ==
    [s EXCEPT !.pointerCoords = [x |-> x, y |-> y]]

onDocumentPointerMove(s, x, y) ==
    [s EXCEPT !.pointerCoords = [x |-> x, y |-> y], !.idleTime = 0]

onDocumentPointerDown(s) ==
    [s EXCEPT !.isPointerPressed = @ + 1, !.idleTime = 0]

onDocumentPointerUp(s) ==
    [s EXCEPT !.isPointerPressed = Min(0, s.isPointerPressed)]

onInterval(s) == [s EXCEPT !.idleTime = @ + IDLE_INTERVAL]

\* The constructor (487-521): fields at their initialisers, then
\* refreshViewport() and refreshScroll() on the window as it is.
SvcFields0 ==
    [viewport |-> [w |-> 0, h |-> 0], scroll |-> [x |-> 0, y |-> 0],
     visible |-> [x1 |-> 0, x2 |-> 0, y1 |-> 0, y2 |-> 0],
     pressedKeys |-> {}, isPointerPressed |-> 0, idleTime |-> 0,
     pointerCoords |-> [x |-> 0, y |-> 0]]

SvcConstructed(w) ==
    refreshScroll(refreshViewport(SvcFields0, HostRead(w)), HostRead(w))

(***************************************************************************)
(* The document                                                            *)
(***************************************************************************)
Elems == {"html", "body", "host", "node", "inner", "sib", "avatar"}

parentNode(k, e) ==
    IF \E q \in Elems : e \in Range(k[q])
    THEN Some(CHOOSE q \in Elems : e \in Range(k[q]))
    ELSE None

IndexOf(s, e) == CHOOSE i \in DOMAIN s : s[i] = e

nextSibling(k, e) ==
    IF parentNode(k, e) = None THEN None
    ELSE LET s == k[Get(parentNode(k, e))]
             i == IndexOf(s, e)
         IN  IF i < Len(s) THEN Some(s[i + 1]) ELSE None

\* Node.contains: inclusive descendant.
RECURSIVE contains(_, _, _)
contains(k, a, b) ==
    \/ a = b
    \/ \E c \in Range(k[a]) : contains(k, c, b)

InDocument(k, e) == contains(k, "html", e)

removeFromParent(k, e) ==
    [q \in Elems |-> SelectSeq(k[q], LAMBDA c : c # e)]

\* parent.insertBefore(new, ref); ref null appends.  As in the DOM standard, a
\* reference child that is the inserted node itself stands for its next sibling.
insertBefore(k, parent, new, ref) ==
    LET r == IF ref = Some(new) THEN nextSibling(k, new) ELSE ref
        k1 == removeFromParent(k, new)
        s == k1[parent]
    IN  IF r = None
        THEN [k1 EXCEPT ![parent] = Append(s, new)]
        ELSE LET i == IndexOf(s, Get(r))
             IN  [k1 EXCEPT ![parent] =
                    SubSeq(s, 1, i - 1) \o <<new>> \o SubSeq(s, i, Len(s))]

appendChild(k, parent, new) == insertBefore(k, parent, new, None)

(***************************************************************************)
(* Listener: ./listener is not among the sources.  A Listener binds its    *)
(* handler when it is constructed and unbind() removes it.                 *)
(***************************************************************************)
Listener(elem, type, handler, capture) ==
    [elem |-> elem, type |-> type, handler |-> handler, capture |-> capture,
     bound |-> TRUE]

unbind(l) == [l EXCEPT !.bound = FALSE]

listen(elem, type, handler, capture) == Listener(elem, type, handler, capture)

(***************************************************************************)
(* PanelComponent.  A method is an operator from the panel (its fields, the *)
(* document and the timer queue) to the panel after the call; threw says   *)
(* that the call ended in an exception, with the effects up to the throw.   *)
(***************************************************************************)
Panel == [config |-> config, state |-> state, overflowing |-> overflowing,
          _avatar |-> _avatar, _originalParent |-> _originalParent,
          _originalAttributes |-> _originalAttributes,
          _isDismounted |-> _isDismounted, _listeners |-> _listeners,
          kids |-> kids, attrs |-> attrs, timers |-> timers, cbLog |-> cbLog,
          opens |-> opens, regGen |-> regGen, orig |-> orig,
          mid |-> None, soa |-> None, threw |-> FALSE]

SetPanel(p) ==
    /\ config' = p.config
    /\ state' = p.state
    /\ overflowing' = p.overflowing
    /\ _avatar' = p._avatar
    /\ _originalParent' = p._originalParent
    /\ _originalAttributes' = p._originalAttributes
    /\ _isDismounted' = p._isDismounted
    /\ _listeners' = p._listeners
    /\ kids' = p.kids
    /\ attrs' = p.attrs
    /\ timers' = p.timers
    /\ cbLog' = p.cbLog
    /\ opens' = p.opens
    /\ regGen' = p.regGen
    /\ orig' = p.orig
    /\ mid' = p.mid
    /\ soa' = p.soa

LISTENER_NAMESPACES == [OPENING |-> "opening", DISMOUNTING |-> "dismounting"]

Throw(p) == [p EXCEPT !.threw = TRUE]

\* isOpen() that never finds the panel open.
isOpenNever(p) == FALSE

isOpen(p) == p.state = "open"
isClosed(p) == p.state = "closed"

addListener(p, namespace, elem, type, handler, capture) ==
    LET l0 == IF p._listeners = None
              THEN [opening |-> None, dismounting |-> None]
              ELSE Get(p._listeners)
        l1 == IF l0[namespace] = None
              THEN [l0 EXCEPT ![namespace] = Some(<<>>)]
              ELSE l0
    IN  [p EXCEPT !._listeners =
            Some([l1 EXCEPT ![namespace] =
                Some(Append(Get(l1[namespace]),
                            listen(elem, type, handler, capture)))])]

\* this._listeners[namespace].forEach(...): a TypeError when _listeners or the
\* namespace's array is undefined.
removeListeners(p, namespace) ==
    IF p._listeners = None THEN Throw(p)
    ELSE IF Get(p._listeners)[namespace] = None THEN Throw(p)
    ELSE LET ls == Get(Get(p._listeners)[namespace])
         IN  [p EXCEPT !._listeners =
                Some([Get(p._listeners) EXCEPT ![namespace] =
                    Some([i \in DOMAIN ls |-> unbind(ls[i])])])]

\* DOMService.getOffsetFromVisible (634-644) for a node whose bounding rect
\* starts at (g.left, g.top) and whose offsetWidth/Height are g.width/height.
getOffsetFromVisible(vp, g) ==
    [left |-> g.left, top |-> g.top,
     right |-> vp.w - g.left - g.width,
     bottom |-> vp.h - g.top - g.height]

NoOverflowing == [left |-> None, right |-> None, top |-> None, bottom |-> None]

\* setOverflowingAttributes without the comparison of the two offsets of an
\* axis: every overflow flips.
setOverflowingWritesAlways(a, offset) ==
    LET a1 == IF offset.left < 0
              THEN [a EXCEPT !.ovLeft = TRUE, !.xdir = "right"] ELSE a
        a2 == IF offset.right < 0
              THEN [a1 EXCEPT !.ovRight = TRUE, !.xdir = "left"] ELSE a1
        a3 == IF offset.bottom < 0
              THEN [a2 EXCEPT !.ovBottom = TRUE, !.ydir = "top"] ELSE a2
        a4 == IF offset.top < 0
              THEN [a3 EXCEPT !.ovTop = TRUE, !.ydir = "bottom"] ELSE a3
    IN  [a4 EXCEPT !.calculated = TRUE]

setOverflowingWrites(a, offset) ==
    LET a1 == IF offset.left < 0
              THEN [a EXCEPT !.ovLeft = TRUE,
                             !.xdir = IF offset.left < offset.right
                                      THEN "right" ELSE @]
              ELSE a
        a2 == IF offset.right < 0
              THEN [a1 EXCEPT !.ovRight = TRUE,
                              !.xdir = IF offset.left > offset.right
                                       THEN "left" ELSE @]
              ELSE a1
        a3 == IF offset.bottom < 0
              THEN [a2 EXCEPT !.ovBottom = TRUE,
                              !.ydir = IF offset.top > offset.bottom
                                       THEN "top" ELSE @]
              ELSE a2
        a4 == IF offset.top < 0
              THEN [a3 EXCEPT !.ovTop = TRUE,
                              !.ydir = IF offset.top < offset.bottom
                                       THEN "bottom" ELSE @]
              ELSE a3
    IN  [a4 EXCEPT !.calculated = TRUE]

setOverflowingRecord(ov, offset) ==
    LET o0 == IF ov = None THEN NoOverflowing ELSE Get(ov)
    IN  Some([left |-> IF offset.left < 0 THEN Some(offset.left) ELSE o0.left,
              right |-> IF offset.right < 0 THEN Some(offset.right) ELSE o0.right,
              top |-> IF offset.top < 0 THEN Some(offset.top) ELSE o0.top,
              bottom |-> IF offset.bottom < 0 THEN Some(offset.bottom)
                         ELSE o0.bottom])

setOverflowingAttributes(p, vp, g) ==
    LET offset == getOffsetFromVisible(vp, g)
        a == setOverflowingWrites(p.attrs, offset)
    IN  [p EXCEPT !.overflowing = setOverflowingRecord(p.overflowing, offset),
                  !.attrs = a,
                  !.soa = Some([viewport |-> vp, rect |-> g, offset |-> offset,
                                pre |-> p.attrs, post |-> a])]

removeOverflowingAttributes(p) ==
    LET ov == IF p.overflowing = None THEN NoOverflowing ELSE Get(p.overflowing)
    IN  [p EXCEPT !.attrs =
            [@ EXCEPT !.xdir = "none", !.ydir = "none",
                      !.ovLeft = IF IsSome(ov.left) THEN FALSE ELSE @,
                      !.ovRight = IF IsSome(ov.right) THEN FALSE ELSE @,
                      !.ovTop = IF IsSome(ov.top) THEN FALSE ELSE @,
                      !.ovBottom = IF IsSome(ov.bottom) THEN FALSE ELSE @,
                      !.calculated = FALSE]]

\* The declarations dismount() writes through node.style (224-229); a
\* declaration the style already has is overwritten in place.
DismountStyle == <<"width", "height", "position", "left", "top", "z-index">>

setStyle(style) ==
    LET s0 == IF style = None THEN <<>> ELSE Get(style)
    IN  Some(s0 \o SelectSeq(DismountStyle, LAMBDA d : d \notin Range(s0)))

\* dismount() with lines 231 and 233 exchanged: the node leaves first.
dismountMoveNodeFirst(k) ==
    LET k1 == appendChild(k, "body", "node")
    IN  [mid |-> k1,
         kids |-> insertBefore(k1, Get(parentNode(k1, "node")), "avatar",
                               nextSibling(k1, "node"))]

\* Lines 231-233: the avatar goes in after the node, then the node moves to
\* the body.  mid is the document between the two.
dismountMove(k) ==
    LET k1 == insertBefore(k, Get(parentNode(k, "node")), "avatar",
                           nextSibling(k, "node"))
    IN  [mid |-> k1, kids |-> appendChild(k1, "body", "node")]

dismount(p) ==
    LET p1 == [p EXCEPT
                !._avatar = Some("avatar"),
                !._originalAttributes = Some([style |-> p.attrs.style]),
                !._originalParent = parentNode(p.kids, "node"),
                !.kids = removeFromParent(p.kids, "avatar"),
                !.attrs.style = setStyle(p.attrs.style)]
    IN  IF parentNode(p1.kids, "node") = None THEN Throw(p1)
        ELSE LET m == dismountMove(p1.kids)
                 p2 == [p1 EXCEPT
                         !.kids = m.kids,
                         !.mid = Some(m.mid),
                         !.orig = Some([parent |-> Get(parentNode(p.kids, "node")),
                                        next |-> nextSibling(p.kids, "node"),
                                        children |->
                                            p.kids[Get(parentNode(p.kids, "node"))],
                                        style |-> p.attrs.style])]
                 p3 == addListener(p2, LISTENER_NAMESPACES.DISMOUNTING,
                                   "window", "resize", "close", FALSE)
                 p4 == addListener(p3, LISTENER_NAMESPACES.DISMOUNTING,
                                   "window", "scroll", "onDocumentScroll", TRUE)
             IN  [p4 EXCEPT !._isDismounted = Some(TRUE)]

\* mount() without the val === null test of line 267.
mountAttributesNoNull(p) ==
    IF p._originalAttributes = None THEN p
    ELSE [p EXCEPT !.attrs.style =
            IF Get(p._originalAttributes).style = None THEN Some(<<>>)
            ELSE Get(p._originalAttributes).style]

mountAttributes(p) ==
    IF p._originalAttributes = None THEN p
    ELSE [p EXCEPT !.attrs.style = Get(p._originalAttributes).style]

mountNode(p) ==
    IF IsSome(p._avatar) /\ InDocument(p.kids, Get(p._avatar))
    THEN [p EXCEPT !.kids =
            insertBefore(p.kids, Get(parentNode(p.kids, Get(p._avatar))),
                         "node", nextSibling(p.kids, Get(p._avatar)))]
    ELSE IF parentNode(p.kids, "node") = None THEN Throw(p)
    ELSE [p EXCEPT !.kids = removeFromParent(p.kids, "node")]

\* The steps of a method after one that can throw are skipped when an
\* exception is on its way out.
mountAvatar(p) ==
    IF p.threw \/ p._avatar = None THEN p
    ELSE IF parentNode(p.kids, Get(p._avatar)) = None THEN Throw(p)
    ELSE [p EXCEPT !.kids = removeFromParent(p.kids, Get(p._avatar))]

mountListeners(p) ==
    IF p.threw THEN p
    ELSE removeListeners(p, LISTENER_NAMESPACES.DISMOUNTING)

\* Lines 286-290: the private fields are deleted.
mountDelete(p) ==
    IF p.threw THEN p
    ELSE [p EXCEPT !._avatar = None, !._originalParent = None,
                   !._originalAttributes = None, !._isDismounted = Some(FALSE)]

mount(p) ==
    mountDelete(mountListeners(mountAvatar(mountNode(mountAttributes(p)))))

\* Lines 103-105 of close().
mountIfDismounted(p) == IF p._isDismounted = Some(TRUE) THEN mount(p) ELSE p

\* Lines 107-113 of close().
closeTail(p) ==
    IF p.threw THEN p
    ELSE removeListeners(
            [removeOverflowingAttributes(p) EXCEPT
                !.cbLog = Append(@, "onClose")],
            LISTENER_NAMESPACES.OPENING)

\* close() without the removeAttribute('open') of line 101.
closeKeepAttribute(p) ==
    IF isClosed(p) THEN p
    ELSE closeTail(mountIfDismounted([p EXCEPT !.state = "closed"]))

close(p) ==
    IF isClosed(p) THEN p
    ELSE closeTail(mountIfDismounted([p EXCEPT !.state = "closed",
                                               !.attrs.open = FALSE]))

\* open() from the point after the await (83-94): the overflow attributes,
\* then the deferred registration of the outside-click listener.
openResume(p, vp, g, gen) ==
    [setOverflowingAttributes(p, vp, g) EXCEPT
        !.timers = Append(@, [kind |-> "listen", gen |-> gen])]

\* Lines 68-73 of open(): the state, the attribute and the callback.
openMark(p) ==
    IF p.threw THEN p
    ELSE [p EXCEPT !.state = "open", !.attrs.open = TRUE,
                   !.cbLog = Append(@, "onOpen"), !.opens = @ + 1]

\* Lines 75-94 of open(): the await of a timer, or the rest at once.
openRest(p, vp, g) ==
    IF p.threw THEN p
    ELSE IF p.config.postponeOverflowCalculating
    THEN [p EXCEPT !.timers = Append(@, [kind |-> "resume", gen |-> p.opens])]
    ELSE openResume(p, vp, g, p.opens)

open(p, vp, g) ==
    IF isOpen(p) THEN p
    ELSE openRest(openMark(IF p.config.isDismountingNeeded THEN dismount(p)
                           ELSE p),
                  vp, g)

toggle(p, vp, g) == IF isOpen(p) THEN close(p) ELSE open(p, vp, g)

\* The timer callback of line 85-94: the outside-click listener is bound.
openingTimer(p, gen) ==
    [addListener(p, LISTENER_NAMESPACES.OPENING, "html", "pointerup",
                 "outsideClick", FALSE)
        EXCEPT !.regGen = Max(@, gen)]

\* The pointerup handler without the isInnerClick test of line 87.
onAnyPointerUp(p, target) == close(p)

\* The handlers the panel binds, applied to an event with the given target.
onOutsidePointerUp(p, target) ==
    IF ~contains(p.kids, "node", target) THEN close(p) ELSE p

onPanelScroll(p, target) ==
    IF "node" # target /\ ~contains(p.kids, "node", target) THEN close(p) ELSE p

handle(p, handler, target) ==
    CASE handler = "close" -> close(p)
      [] handler = "onDocumentScroll" -> onPanelScroll(p, target)
      [] handler = "outsideClick" -> onOutsidePointerUp(p, target)

\* The browser invokes, in the order of their registration, the listeners of
\* a namespace that are still bound when their turn comes; an exception in one
\* is reported and does not stop the others.
reportError(p, r) == [r EXCEPT !.threw = p.threw \/ r.threw]

RECURSIVE dispatchFrom(_, _, _, _, _, _, _)
dispatchFrom(p, namespace, i, n, elem, type, target) ==
    IF i > n THEN p
    ELSE LET l == Get(Get(p._listeners)[namespace])[i]
         IN  IF l.bound /\ l.elem = elem /\ l.type = type
             THEN dispatchFrom(
                    reportError(p, handle([p EXCEPT !.threw = FALSE],
                                          l.handler, target)),
                    namespace, i + 1, n, elem, type, target)
             ELSE dispatchFrom(p, namespace, i + 1, n, elem, type, target)

dispatch(p, namespace, elem, type, target) ==
    IF p._listeners = None THEN p
    ELSE IF Get(p._listeners)[namespace] = None THEN p
    ELSE dispatchFrom(p, namespace, 1, Len(Get(Get(p._listeners)[namespace])),
                      elem, type, target)

(***************************************************************************)
(* DOMService utilities                                                    *)
(***************************************************************************)
\* getSelectedTextElement (724-739).  h is what the host does: getSelection
\* throws, returns null, or returns a selection whose anchorNode is null, a
\* node with a parent, or a node without one; legacy says whether the IE8
\* object document.selection exists.
getSelectedTextElement(h) ==
    IF h.getSelection = "selection"
    THEN [threw |-> FALSE,
          node |-> CASE h.anchorNode = "null" -> "undefined"
                     [] h.anchorNode = "child" -> "anchorParent"
                     [] h.anchorNode = "orphan" -> "null"]
    ELSE IF h.legacy
         THEN [threw |-> FALSE, node |-> "legacyParent"]
         ELSE [threw |-> TRUE, node |-> "undefined"]

SelectionHosts ==
    [getSelection : {"throws", "null", "selection"},
     anchorNode : {"null", "child", "orphan"}, legacy : BOOLEAN]

\* The escape sequences of the modelled inputs: %25 is "%", %61 is "a".
Escapes == (<<"2", "5">> :> "%") @@ (<<"6", "1">> :> "a")

\* decodeURIComponent: a URIError (ok is FALSE) for a "%" that does not start
\* an escape sequence.
RECURSIVE decodeURIComponent(_)
decodeURIComponent(str) ==
    IF str = <<>> THEN [ok |-> TRUE, val |-> <<>>]
    ELSE IF Head(str) = "%"
    THEN IF Len(str) >= 3 /\ <<str[2], str[3]>> \in DOMAIN Escapes
         THEN LET r == decodeURIComponent(SubSeq(str, 4, Len(str)))
              IN  [ok |-> r.ok, val |-> <<Escapes[<<str[2], str[3]>>]>> \o r.val]
         ELSE [ok |-> FALSE, val |-> <<>>]
    ELSE LET r == decodeURIComponent(Tail(str))
         IN  [ok |-> r.ok, val |-> <<Head(str)>> \o r.val]

\* String.prototype.split with a one-character separator.
RECURSIVE split(_, _)
split(str, sep) ==
    IF \A i \in DOMAIN str : str[i] # sep THEN <<str>>
    ELSE LET i == CHOOSE j \in DOMAIN str :
                    str[j] = sep /\ \A m \in 1 .. (j - 1) : str[m] # sep
         IN  <<SubSeq(str, 1, i - 1)>> \o split(SubSeq(str, i + 1, Len(str)), sep)

\* String(undefined), what decodeURIComponent makes of a missing pair[1].
UndefinedString == <<"u", "n", "d", "e", "f", "i", "n", "e", "d">>

\* A property name every object inherits from Object.prototype.
ConstructorName == <<"c", "o", "n", "s", "t", "r", "u", "c", "t", "o", "r">>
ObjectPrototypeKeys == {ConstructorName}

\* typeof query_string[key]
typeOfProperty(obj, key) ==
    IF key \in DOMAIN obj THEN obj[key].t
    ELSE IF key \in ObjectPrototypeKeys THEN "function"
    ELSE "undefined"

\* One turn of the loop of lines 898-913 on the pair vars[i].
parsePair(qs, var) ==
    LET pair == split(var, "=")
        key == decodeURIComponent(pair[1])
        value == IF Len(pair) >= 2 THEN decodeURIComponent(pair[2])
                 ELSE [ok |-> TRUE, val |-> UndefinedString]
        again == decodeURIComponent(value.val)
        type == typeOfProperty(qs.obj, key.val)
    IN  IF ~key.ok \/ ~value.ok \/ ~again.ok THEN [qs EXCEPT !.threw = TRUE]
        ELSE IF type = "undefined"
        THEN [qs EXCEPT !.obj = (key.val :> [t |-> "string", v |-> again.val]) @@ @]
        ELSE IF type = "string"
        THEN [qs EXCEPT !.obj[key.val] =
                [t |-> "object", v |-> <<qs.obj[key.val].v, again.val>>]]
        ELSE IF type = "object"
        THEN [qs EXCEPT !.obj[key.val].v = Append(@, again.val)]
        ELSE [qs EXCEPT !.threw = TRUE]

RECURSIVE parseFrom(_, _, _)
parseFrom(qs, queryVars, i) ==
    IF i > Len(queryVars) \/ qs.threw THEN qs
    ELSE parseFrom(parsePair(qs, queryVars[i]), queryVars, i + 1)

parseQueryString(query) ==
    parseFrom([threw |-> FALSE, obj |-> <<>>], split(query, "&"), 1)

\* The query strings of the model: up to MaxPairs pairs name=value.
QueryNames == {<<"a">>, <<"b">>, ConstructorName}
QueryValues == {<<"1">>, <<"2">>, <<"%", "2", "5", "6", "1">>}
QueryPairs == [name : QueryNames, value : QueryValues]
QueryInputs == UNION {[1 .. n -> QueryPairs] : n \in 1 .. MaxPairs}

RECURSIVE joinPairs(_)
joinPairs(ps) ==
    IF Len(ps) = 1 THEN ps[1].name \o <<"=">> \o ps[1].value
    ELSE ps[1].name \o <<"=">> \o ps[1].value \o <<"&">> \o joinPairs(Tail(ps))

\* JavaScript values as convertToFormData meets them.  A scalar is a string
\* (s), a number (n), true, false, null, undefined, a File (s its name) or an
\* object that is not looked into; an array or a plain object has items, each
\* a scalar v under the property name k (empty for an array's elements).
Scalar(t, str, n) == [t |-> t, s |-> str, n |-> n]
Value(v, items) == [t |-> v.t, s |-> v.s, n |-> v.n, items |-> items]

\* typeof val
typeOf(val) ==
    CASE val.t = "string" -> "string"
      [] val.t = "number" -> "number"
      [] val.t \in {"true", "false"} -> "boolean"
      [] val.t = "undefined" -> "undefined"
      [] OTHER -> "object"

\* isFile (840-842) and isObject (844-848).
isFile(val) == val.t = "file"

isObject(val) ==
    val.t \notin {"null", "undefined"} /\ typeOf(val) \in {"object", "function"}

\* Array.isArray
isArray(val) == val.t = "array"

\* String(n) for a natural number n.
Digits == <<"0", "1", "2", "3", "4", "5", "6", "7", "8", "9">>

RECURSIVE NumberToString(_)
NumberToString(n) ==
    IF n < 10 THEN <<Digits[n + 1]>>
    ELSE NumberToString(n \div 10) \o <<Digits[(n % 10) + 1]>>

\* String(val), the conversion FormData.append applies to what is not a File.
String(val) ==
    CASE val.t = "string" -> val.s
      [] val.t = "number" -> NumberToString(val.n)
      [] val.t = "true" -> <<"t", "r", "u", "e">>
      [] val.t = "false" -> <<"f", "a", "l", "s", "e">>
      [] val.t = "null" -> <<"n", "u", "l", "l">>
      [] val.t = "undefined" -> UndefinedString
      [] OTHER -> <<"[", "o", "b", "j", "e", "c", "t", " ",
                    "O", "b", "j", "e", "c", "t", "]">>

\* fd.append(name, val): the entry list with one more entry, a File kept as
\* it is and anything else as its string.
append(fd, name, val) ==
    Append(fd, [name |-> name, file |-> isFile(val),
                value |-> IF isFile(val) THEN val.s ELSE String(val)])

\* val.forEach(...) of lines 863-865 from element i on.
RECURSIVE appendElements(_, _, _, _)
appendElements(fd, key, items, i) ==
    IF i > Len(items) THEN fd
    ELSE appendElements(append(fd, key \o <<"[", "]">>, items[i].v),
                        key, items, i + 1)

\* for (let innerKey in val) of lines 867-871 from property i on.
RECURSIVE appendProperties(_, _, _, _)
appendProperties(fd, key, items, i) ==
    IF i > Len(items) THEN fd
    ELSE appendProperties(
            append(fd, key \o <<"[">> \o items[i].k \o <<"]">>, items[i].v),
            key, items, i + 1)

\* One turn of the loop of lines 856-872, with the test of line 860 given.
convertEntryWith(fd, key, val, plain) ==
    IF plain THEN append(fd, key, val)
    ELSE IF isArray(val) THEN appendElements(fd, key, val.items, 1)
    ELSE IF isObject(val) THEN appendProperties(fd, key, val.items, 1)
    ELSE fd

\* Line 860 without its `&& val`.
convertEntryAnyBoolean(fd, key, val) ==
    convertEntryWith(fd, key, val,
        typeOf(val) \in {"string", "number", "boolean"} \/ isFile(val))

convertEntry(fd, key, val) ==
    convertEntryWith(fd, key, val,
        \/ typeOf(val) = "string"
        \/ typeOf(val) = "number"
        \/ (typeOf(val) = "boolean" /\ val.t = "true")
        \/ isFile(val))

RECURSIVE convertFrom(_, _, _)
convertFrom(fd, data, i) ==
    IF i > Len(data) THEN fd
    ELSE convertFrom(convertEntry(fd, data[i].k, data[i].v), data, i + 1)

\* convertToFormData (850-875): data is the object's properties in the order
\* for...in visits them.
convertToFormData(data) == convertFrom(<<>>, data, 1)

\* The objects of the model: one or two properties a and b, each a scalar, an
\* array of up to MaxElems elements or an object of up to MaxElems properties.
Scalars ==
    {Scalar("string", <<"x">>, 0), Scalar("number", <<>>, 0),
     Scalar("number", <<>>, 10), Scalar("true", <<>>, 0),
     Scalar("false", <<>>, 0), Scalar("null", <<>>, 0),
     Scalar("undefined", <<>>, 0), Scalar("file", <<"f">>, 0),
     Scalar("date", <<>>, 0)}
InnerScalars ==
    {Scalar("string", <<"x">>, 0), Scalar("number", <<>>, 0),
     Scalar("false", <<>>, 0), Scalar("file", <<"f">>, 0)}
InnerKeys == {<<"p">>, <<"q">>}
ArrayItems ==
    UNION {[1 .. n -> [k : {<<>>}, v : InnerScalars]] : n \in 0 .. MaxElems}
ObjectItems ==
    {items \in UNION {[1 .. n -> [k : InnerKeys, v : InnerScalars]] :
                        n \in 0 .. Min(MaxElems, Cardinality(InnerKeys))} :
        \A i, j \in DOMAIN items : items[i].k = items[j].k => i = j}
FormValues ==
    {Value(v, <<>>) : v \in Scalars}
        \cup {Value(Scalar("array", <<>>, 0), items) : items \in ArrayItems}
        \cup {Value(Scalar("plain", <<>>, 0), items) : items \in ObjectItems}
FormKeys == {<<"a">>, <<"b">>}
FormInputs ==
    {data \in UNION {[1 .. n -> [k : FormKeys, v : FormValues]] : n \in 1 .. 2} :
        \A i, j \in DOMAIN data : data[i].k = data[j].k => i = j}

(***************************************************************************)
(* Initial states                                                          *)
(***************************************************************************)
\* Where layout can have put the node when its overflow is computed: every
\* horizontal case with the node vertically inside the viewport, every vertical
\* case with it horizontally inside, and the far corner.
Lefts == {-2, -1, 0}
Tops == {-2, -1, 0}
Widths == {1, 5}
Heights == {1, 5}
Rects == [left : Lefts, top : Tops, width : Widths, height : Heights]

\* The places used where the claims are about the panel's life cycle and not
\* about its geometry: inside the viewport, and over its left and bottom
\* edges.
PanelRects ==
    {[left |-> 0, top |-> 0, width |-> 1, height |-> 1],
     [left |-> -1, top |-> 0, width |-> 1, height |-> 5]}

Layouts == {"hostFirst", "hostLast", "detached", "bodyFirst", "bodyLast",
            "orphan"}
Styles == {None, Some(<<>>), Some(<<"color">>)}
Configs == [isDismountingNeeded : BOOLEAN, postponeOverflowCalculating : BOOLEAN]

NoKids == [e \in Elems |-> <<>>]

\* Where the page has put the panel's node: first or last child of a host
\* element or of the body, in a host that is not in the document, or nowhere.
LayoutKids(layout) ==
    LET base == [NoKids EXCEPT !["html"] = <<"body">>, !["node"] = <<"inner">>]
    IN  CASE layout = "hostFirst" ->
                [base EXCEPT !["body"] = <<"host">>, !["host"] = <<"node", "sib">>]
          [] layout = "hostLast" ->
                [base EXCEPT !["body"] = <<"host">>, !["host"] = <<"sib", "node">>]
          [] layout = "detached" ->
                [base EXCEPT !["host"] = <<"node", "sib">>]
          [] layout = "bodyFirst" ->
                [base EXCEPT !["body"] = <<"node", "sib">>]
          [] layout = "bodyLast" ->
                [base EXCEPT !["body"] = <<"sib", "node">>]
          [] layout = "orphan" ->
                [base EXCEPT !["body"] = <<"sib">>]

NoAttrs == [open |-> FALSE, xdir |-> "none", ydir |-> "none", ovLeft |-> FALSE,
            ovRight |-> FALSE, ovTop |-> FALSE, ovBottom |-> FALSE,
            calculated |-> FALSE, style |-> None]

NoOp == [name |-> "none", target |-> "none", threw |-> FALSE,
         wasOpen |-> FALSE, wasRegistered |-> FALSE, avatarWasIn |-> FALSE,
         wasDismounted |-> FALSE]

InitSvc(w) ==
    /\ win = w
    /\ LET s == SvcConstructed(w)
        IN  /\ viewport = s.viewport
            /\ scroll = s.scroll
            /\ visible = s.visible
            /\ pressedKeys = s.pressedKeys
            /\ isPointerPressed = s.isPointerPressed
            /\ idleTime = s.idleTime
            /\ pointerCoords = s.pointerCoords
    /\ heldPointers = {}
    /\ keyLast = [k \in Keys |-> "none"]
    /\ ticksSince = 0

\* new PanelComponent(node) (35-57): closed, every private field undefined.
InitPanel(c, layout, style) ==
    /\ config = c
    /\ state = "closed"
    /\ overflowing = None
    /\ _avatar = None
    /\ _originalParent = None
    /\ _originalAttributes = None
    /\ _isDismounted = None
    /\ _listeners = None
    /\ kids = LayoutKids(layout)
    /\ attrs = [NoAttrs EXCEPT !.style = style]
    /\ timers = <<>>
    /\ cbLog = <<>>
    /\ lastOp = NoOp
    /\ opens = 0
    /\ regGen = 0
    /\ orig = None
    /\ mid = None
    /\ soa = None

InitCall ==
    /\ callFn = "none"
    /\ callIn = None
    /\ callOut = None

Win0 == [w |-> 2, h |-> 2, x |-> 0, y |-> 0, sb |-> 1, quirks |-> FALSE]

(***************************************************************************)
(* Actions: one task of the event loop each                                *)
(***************************************************************************)
Registered == opens > 0 /\ regGen = opens

Op(name, target, p) ==
    /\ SetPanel(p)
    /\ lastOp' = [name |-> name, target |-> target, threw |-> p.threw,
               wasOpen |-> state = "open", wasRegistered |-> Registered,
               avatarWasIn |-> _avatar # None /\ InDocument(kids, Get(_avatar)),
               wasDismounted |-> _isDismounted = Some(TRUE)]

\* Whether the panel has a listener bound for the event.
Listening(namespace, elem, type) ==
    /\ _listeners # None
    /\ Get(_listeners)[namespace] # None
    /\ \E l \in Range(Get(Get(_listeners)[namespace])) :
        l.bound /\ l.elem = elem /\ l.type = type

\* An event: lastOp and the one-step histories are those of the last task in
\* which code of the panel ran.
Event(namespace, elem, type, target) ==
    IF Listening(namespace, elem, type)
    THEN Op(type, target, dispatch(Panel, namespace, elem, type, target))
    ELSE UNCHANGED panelVars

\* The places of R where the node can be when a task reads its layout; one
\* of them for a task that does not read it.
Layout(R, read) == IF read THEN R ELSE {CHOOSE g \in R : TRUE}

\* open() reads the layout when it gets to setOverflowingAttributes().
ReadsLayout == state = "closed" /\ ~config.postponeOverflowCalculating

\* A call of open() by the page.
Open(R) ==
    /\ state = "open" \/ opens < MaxOpens
    /\ \E g \in Layout(R, ReadsLayout) :
        Op("open", "none", open(Panel, viewport, g))
    /\ UNCHANGED <<svcVars, hostVars, callVars>>

\* A call of close() by the page.
Close ==
    /\ Op("close", "none", close(Panel))
    /\ UNCHANGED <<svcVars, hostVars, callVars>>

\* A call of toggle() by the page.
Toggle(R) ==
    /\ state = "open" \/ opens < MaxOpens
    /\ \E g \in Layout(R, ReadsLayout) :
        Op("toggle", "none", toggle(Panel, viewport, g))
    /\ UNCHANGED <<svcVars, hostVars, callVars>>

\* The oldest setTimeout(..., 0) callback runs: the resolve() of line 78 and
\* with it the rest of open(), or the registration of lines 85-94.
Timer(R) ==
    /\ timers # <<>>
    /\ \E g \in Layout(R, Head(timers).kind = "resume") :
        LET t == Head(timers)
            p0 == [Panel EXCEPT !.timers = Tail(timers)]
        IN  Op(t.kind, "none",
               IF t.kind = "resume" THEN openResume(p0, viewport, g, t.gen)
               ELSE openingTimer(p0, t.gen))
    /\ UNCHANGED <<svcVars, hostVars, callVars>>

\* The window is resized: DOMService.onWindowResize, then the panel's resize
\* listeners.
WindowResize(W, H) ==
    /\ \E w \in W, h \in H :
        /\ win' = [win EXCEPT !.w = w, !.h = h]
        /\ SetSvc(onWindowResize(Svc, HostRead(win')))
    /\ Event(LISTENER_NAMESPACES.DISMOUNTING, "window", "resize", "window")
    /\ ticksSince' = 0
    /\ UNCHANGED <<heldPointers, keyLast, callVars>>

\* The page is scrolled: the event's target is the document; the panel's
\* capturing listener on window and DOMService.onDocumentScroll see it.
DocumentScroll(X, Y) ==
    /\ \E x \in X, y \in Y :
        /\ win' = [win EXCEPT !.x = x, !.y = y]
        /\ SetSvc(onDocumentScroll(Svc, HostRead(win')))
    /\ Event(LISTENER_NAMESPACES.DISMOUNTING, "window", "scroll", "document")
    /\ ticksSince' = 0
    /\ UNCHANGED <<heldPointers, keyLast, callVars>>

\* An element of the document is scrolled: the event does not bubble, so only
\* the panel's capturing listener on window sees it.
ElementScroll ==
    /\ \E target \in Elems \ {"html"} :
        /\ InDocument(kids, target)
        /\ Event(LISTENER_NAMESPACES.DISMOUNTING, "window", "scroll", target)
    /\ UNCHANGED <<svcVars, hostVars, callVars>>

\* A pointer of P is released over an element of the document: the panel's
\* listeners on documentElement, then DOMService.onDocumentPointerUp.
PointerUp(P) ==
    /\ \E id \in P, target \in Elems \ {"html"} :
        /\ InDocument(kids, target)
        /\ heldPointers' = heldPointers \ {id}
        /\ Event(LISTENER_NAMESPACES.OPENING, "html", "pointerup", target)
    /\ SetSvc(onDocumentPointerUp(Svc))
    /\ UNCHANGED <<win, keyLast, ticksSince, callVars>>

PointerDown ==
    /\ \E id \in PointerIds :
        /\ id \notin heldPointers
        /\ heldPointers' = heldPointers \cup {id}
    /\ SetSvc(onDocumentPointerDown(Svc))
    /\ ticksSince' = 0
    /\ UNCHANGED <<win, keyLast, panelVars, callVars>>

PointerMove ==
    /\ \E x \in ClientXs, y \in ClientXs :
        SetSvc(onDocumentPointerMove(Svc, x, y))
    /\ ticksSince' = 0
    /\ UNCHANGED <<win, heldPointers, keyLast, panelVars, callVars>>

KeyDown ==
    /\ \E k \in Keys :
        /\ SetSvc(onDocumentKeyDown(Svc, k))
        /\ keyLast' = [keyLast EXCEPT ![k] = "down"]
    /\ ticksSince' = 0
    /\ UNCHANGED <<win, heldPointers, panelVars, callVars>>

KeyUp ==
    /\ \E k \in Keys :
        /\ SetSvc(onDocumentKeyUp(Svc, k))
        /\ keyLast' = [keyLast EXCEPT ![k] = "up"]
    /\ UNCHANGED <<win, heldPointers, ticksSince, panelVars, callVars>>

WindowBlur ==
    /\ SetSvc(onWindowBlur(Svc))
    /\ keyLast' = [k \in Keys |-> "blur"]
    /\ UNCHANGED <<win, heldPointers, ticksSince, panelVars, callVars>>

\* The setInterval callback of lines 515-517.
Interval ==
    /\ ticksSince < MaxTicks
    /\ SetSvc(onInterval(Svc))
    /\ ticksSince' = ticksSince + 1
    /\ UNCHANGED <<win, heldPointers, keyLast, panelVars, callVars>>

\* Foreign code (a re-render of the page) takes the avatar out of the
\* document while the panel is dismounted: the avatar alone, or the host
\* element around it.
AvatarRemoved ==
    /\ _isDismounted = Some(TRUE)
    /\ state = "open"
    /\ InDocument(kids, "avatar")
    /\ kids' = removeFromParent(kids, "avatar")
    /\ lastOp' = [NoOp EXCEPT !.name = "avatarRemoved"]
    /\ mid' = None
    /\ soa' = None
    /\ UNCHANGED <<config, state, overflowing, _avatar, _originalParent,
                   _originalAttributes, _isDismounted, _listeners, attrs,
                   timers, cbLog, opens, regGen, orig>>
    /\ UNCHANGED <<svcVars, hostVars, callVars>>

HostRemoved ==
    /\ _isDismounted = Some(TRUE)
    /\ state = "open"
    /\ InDocument(kids, "avatar")
    /\ parentNode(kids, "avatar") = Some("host")
    /\ kids' = removeFromParent(kids, "host")
    /\ lastOp' = [NoOp EXCEPT !.name = "hostRemoved"]
    /\ mid' = None
    /\ soa' = None
    /\ UNCHANGED <<config, state, overflowing, _avatar, _originalParent,
                   _originalAttributes, _isDismounted, _listeners, attrs,
                   timers, cbLog, opens, regGen, orig>>
    /\ UNCHANGED <<svcVars, hostVars, callVars>>

(***************************************************************************)
(* Specifications                                                          *)
(***************************************************************************)
\* The panel in a page: its methods, its timers, the events it listens to
\* and the page's changes of the document.
InitPanelSpec ==
    /\ InitSvc(Win0)
    /\ \E c \in Configs, layout \in Layouts, style \in Styles :
        /\ c.isDismountingNeeded \/ layout = "hostFirst"
        /\ (c.isDismountingNeeded /\ layout = "hostFirst") \/ style = None
        /\ InitPanel(c, layout, style)
    /\ InitCall

\* The panel's handler does not look at which pointer was released.
OnePointer == {CHOOSE id \in PointerIds : TRUE}

NextPanel ==
    \/ Open(PanelRects)
    \/ Close
    \/ Toggle(PanelRects)
    \/ Timer(PanelRects)
    \/ WindowResize({Win0.w}, {Win0.h})
    \/ DocumentScroll({Win0.x}, {Win0.y})
    \/ ElementScroll
    \/ PointerUp(OnePointer)
    \/ AvatarRemoved
    \/ HostRemoved

SpecPanel == InitPanelSpec /\ [][NextPanel]_vars

\* The panel's geometry: a panel that is not dismounted, opened and closed at
\* every place of Rects in a window of every size.
InitOverflowSpec ==
    /\ \E w \in WinWidths, h \in WinHeights :
        InitSvc([Win0 EXCEPT !.w = w, !.h = h])
    /\ \E postpone \in BOOLEAN :
        InitPanel([isDismountingNeeded |-> FALSE,
                   postponeOverflowCalculating |-> postpone], "hostFirst", None)
    /\ InitCall

NextOverflow ==
    \/ Open(Rects)
    \/ Close
    \/ Timer(Rects)

SpecOverflow == InitOverflowSpec /\ [][NextOverflow]_vars

\* The DOM service alone: every event it listens to, with a panel that is
\* never opened.
InitDomSpec ==
    /\ \E quirks \in BOOLEAN : InitSvc([Win0 EXCEPT !.quirks = quirks])
    /\ InitPanel([isDismountingNeeded |-> FALSE,
                  postponeOverflowCalculating |-> FALSE], "hostFirst", None)
    /\ InitCall

NextDom ==
    \/ WindowResize(WinWidths, WinHeights)
    \/ DocumentScroll(ScrollXs, ScrollYs)
    \/ PointerDown
    \/ PointerUp(heldPointers)
    \/ PointerMove
    \/ KeyDown
    \/ KeyUp
    \/ WindowBlur
    \/ Interval

SpecDom == InitDomSpec /\ [][NextDom]_vars

\* The utility methods: a call with every input of the model.
GetSelectedTextElement ==
    /\ callFn = "getSelectedTextElement"
    /\ callOut = None
    /\ callOut' = Some(getSelectedTextElement(Get(callIn)))
    /\ UNCHANGED <<callFn, callIn, svcVars, hostVars, panelVars>>

ParseQueryString ==
    /\ callFn = "parseQueryString"
    /\ callOut = None
    /\ callOut' = Some(parseQueryString(joinPairs(Get(callIn))))
    /\ UNCHANGED <<callFn, callIn, svcVars, hostVars, panelVars>>

ConvertToFormData ==
    /\ callFn = "convertToFormData"
    /\ callOut = None
    /\ callOut' = Some(convertToFormData(Get(callIn)))
    /\ UNCHANGED <<callFn, callIn, svcVars, hostVars, panelVars>>

InitUtilSpec ==
    /\ InitSvc(Win0)
    /\ InitPanel([isDismountingNeeded |-> FALSE,
                  postponeOverflowCalculating |-> FALSE], "hostFirst", None)
    /\ callOut = None
    /\ \/ callFn = "getSelectedTextElement" /\ callIn \in {Some(h) : h \in SelectionHosts}
       \/ callFn = "parseQueryString" /\ callIn \in {Some(q) : q \in QueryInputs}
       \/ callFn = "convertToFormData" /\ callIn \in {Some(d) : d \in FormInputs}

NextUtil ==
    \/ GetSelectedTextElement
    \/ ParseQueryString
    \/ ConvertToFormData

SpecUtil == InitUtilSpec /\ [][NextUtil]_vars

(***************************************************************************)
(* Properties                                                              *)
(***************************************************************************)
\* C1: at every quiescent point reached by open(), close(), toggle() and the
\* panel's own event handlers and timers, the node has the `open` attribute
\* if and only if the panel's state is Open.
C1_OpenAttributeIffOpen == attrs.open <=> state = "open"

\* An outside pointerup has closed a panel that open() had opened.
C1_Witness ==
    /\ lastOp.name = "pointerup"
    /\ lastOp.wasOpen
    /\ opens > 0
    /\ state = "closed"
    /\ ~attrs.open

\* The panel has just been closed after an open phase in which it was
\* dismounted.
ClosedAfterDismount ==
    /\ config.isDismountingNeeded
    /\ orig # None
    /\ lastOp.wasOpen
    /\ state = "closed"

\* The node is where it was before dismount(), with the style it had, and the
\* avatar is out of the document.
Restored ==
    LET o == Get(orig)
    IN  /\ parentNode(kids, "node") = Some(o.parent)
        /\ nextSibling(kids, "node") = o.next
        /\ kids[o.parent] = o.children
        /\ ~InDocument(kids, "avatar")
        /\ attrs.style = o.style

\* C2 as stated: for a panel with isDismountingNeeded, after open() and then
\* close() the node is again a child of its original parent, directly before
\* the sibling that followed it, the avatar is not in the document and the
\* style attribute has its value from before dismount().
C2_RoundTrip == ClosedAfterDismount => Restored

\* C2: the round trip holds whenever the avatar is still in the document
\* when the panel is closed.
C2_RoundTripWhileAvatarInDocument ==
    (ClosedAfterDismount /\ lastOp.avatarWasIn) => Restored

\* A node that had no style attribute and was the last child of its parent
\* has been dismounted and mounted again.
C2_Witness ==
    /\ ClosedAfterDismount
    /\ lastOp.avatarWasIn
    /\ ~lastOp.threw
    /\ Get(orig).style = None
    /\ Get(orig).next = None
    /\ Restored

\* The children of the node's original parent in the document k, the node
\* left out and the avatar read as the node.
SlotView(k) ==
    LET cur == SelectSeq(k[Get(orig).parent], LAMBDA c : c # "node")
    IN  [i \in 1 .. Len(cur) |-> IF cur[i] = "avatar" THEN "node" ELSE cur[i]]

\* The node is a child of the body and the avatar is in the node's slot.
DismountedShape ==
    /\ parentNode(kids, "node") = Some("body")
    /\ parentNode(kids, "avatar") = Some(Get(orig).parent)
    /\ SlotView(kids) = Get(orig).children

\* Inside dismount(), when the avatar has been inserted, the node is still in
\* its original parent and the avatar is its next sibling.
AvatarInsertedFirst ==
    mid # None =>
        /\ parentNode(Get(mid), "node") = Some(Get(orig).parent)
        /\ nextSibling(Get(mid), "node") = Some("avatar")
        /\ SelectSeq(Get(mid)[Get(orig).parent], LAMBDA c : c # "avatar")
             = Get(orig).children

\* C3 as stated: whenever _isDismounted is true the node is a child of
\* document.body and the avatar occupies the node's original slot, and
\* dismount() inserts the avatar before it moves the node.
C3_DismountedShape ==
    /\ _isDismounted = Some(TRUE) => DismountedShape
    /\ AvatarInsertedFirst

\* C3: the shape holds whenever the panel is dismounted and the avatar still
\* has a parent, and dismount() inserts the avatar before it moves the node.
C3_DismountedShapeWhileAvatarAttached ==
    /\ (_isDismounted = Some(TRUE) /\ parentNode(kids, "avatar") # None)
         => DismountedShape
    /\ AvatarInsertedFirst

\* dismount() has just run on a node that was the first child of the body.
C3_Witness ==
    /\ _isDismounted = Some(TRUE)
    /\ mid # None
    /\ Get(orig).parent = "body"
    /\ Get(orig).next = Some("sib")
    /\ kids["body"] = <<"avatar", "sib", "node">>

\* What the rules of C4 make of the direction attribute of an axis, given the
\* offsets o and the value the attribute had before.
FlipX(o, before) ==
    IF o.left < 0 /\ o.left < o.right THEN "right"
    ELSE IF o.right < 0 /\ o.left > o.right THEN "left"
    ELSE before

FlipY(o, before) ==
    IF o.bottom < 0 /\ o.top > o.bottom THEN "top"
    ELSE IF o.top < 0 /\ o.top < o.bottom THEN "bottom"
    ELSE before

\* C4: a run of setOverflowingAttributes() with the node's offsets from the
\* viewport writes x-direction 'right' exactly when left < 0 and left < right,
\* 'left' exactly when right < 0 and left > right, y-direction 'top' exactly
\* when bottom < 0 and top > bottom, 'bottom' exactly when top < 0 and
\* top < bottom, never both values of an axis, an overflowing-<side>
\* attribute exactly for the sides with a negative offset, and
\* overflowing-calculated; it writes nothing else.
C4_OverflowFlip ==
    soa # None =>
        LET r == Get(soa)
            o == r.offset
        IN  /\ o = [left |-> r.rect.left, top |-> r.rect.top,
                    right |-> r.viewport.w - (r.rect.left + r.rect.width),
                    bottom |-> r.viewport.h - (r.rect.top + r.rect.height)]
            /\ ~((o.left < 0 /\ o.left < o.right) /\ (o.right < 0 /\ o.left > o.right))
            /\ ~((o.bottom < 0 /\ o.top > o.bottom) /\ (o.top < 0 /\ o.top < o.bottom))
            /\ r.post.xdir = FlipX(o, r.pre.xdir)
            /\ r.post.ydir = FlipY(o, r.pre.ydir)
            /\ r.post.ovLeft = (o.left < 0 \/ r.pre.ovLeft)
            /\ r.post.ovRight = (o.right < 0 \/ r.pre.ovRight)
            /\ r.post.ovTop = (o.top < 0 \/ r.pre.ovTop)
            /\ r.post.ovBottom = (o.bottom < 0 \/ r.pre.ovBottom)
            /\ r.post.calculated
            /\ r.post.open = r.pre.open
            /\ r.post.style = r.pre.style
            /\ attrs = r.post

\* The node overflows the viewport on all four sides, further at the left
\* and at the bottom: it flips to the right and to the top.
C4_Witness ==
    /\ soa # None
    /\ Get(soa).offset.left < Get(soa).offset.right
    /\ Get(soa).offset.right < 0
    /\ Get(soa).offset.bottom < Get(soa).offset.top
    /\ Get(soa).offset.top < 0
    /\ attrs.xdir = "right"
    /\ attrs.ydir = "top"
    /\ attrs.ovLeft /\ attrs.ovRight /\ attrs.ovTop /\ attrs.ovBottom

\* C5: once the registration deferred by open() has run and while the panel
\* is open, the outside-click listener is bound, a pointerup whose target is
\* outside the node closes the panel and a pointerup whose target is the node
\* or a descendant of it leaves the panel open.
C5_OutsideClick ==
    /\ (state = "open" /\ Registered)
         => Listening(LISTENER_NAMESPACES.OPENING, "html", "pointerup")
    /\ (lastOp.name = "pointerup" /\ lastOp.wasOpen /\ lastOp.wasRegistered)
         => IF lastOp.target \in {"node", "inner"}
            THEN state = "open" /\ attrs.open
            ELSE state = "closed" /\ ~attrs.open

\* A pointerup on the node's sibling has closed a registered open panel.
C5_Witness ==
    /\ lastOp.name = "pointerup"
    /\ lastOp.wasOpen
    /\ lastOp.wasRegistered
    /\ lastOp.target = "sib"
    /\ state = "closed"

\* A pointerup inside the node has left a registered open panel open.
C5_WitnessInside ==
    /\ lastOp.name = "pointerup"
    /\ lastOp.wasOpen
    /\ lastOp.wasRegistered
    /\ lastOp.target = "inner"
    /\ state = "open"

\* C6: viewport is the window's size at the last resize (or at
\* construction), scroll its offsets at the last scroll (or at construction),
\* and visible is the rectangle from scroll to scroll + viewport.
C6_TrackedGeometry ==
    /\ viewport = [w |-> win.w, h |-> win.h]
    /\ scroll = [x |-> win.x, y |-> win.y]
    /\ visible = [x1 |-> scroll.x, x2 |-> scroll.x + viewport.w,
                  y1 |-> scroll.y, y2 |-> scroll.y + viewport.h]

\* The window has been resized and scrolled away from what it was at
\* construction.
C6_Witness ==
    /\ win.w # Win0.w
    /\ win.h # Win0.h
    /\ win.x # Win0.x
    /\ win.y # Win0.y
    /\ visible.x2 = win.x + win.w
    /\ visible.y2 = win.y + win.h

\* C7: isKeyPressed(k) is true if and only if the last of the events keydown
\* k, keyup k and window blur was a keydown k; the pressed-keys set is empty
\* right after a window blur.
C7_PressedKeys ==
    /\ \A k \in Keys : isKeyPressed(Svc, k) <=> keyLast[k] = "down"
    /\ (\A k \in Keys : keyLast[k] = "blur") => pressedKeys = {}

\* A key has been pressed again after a window blur that released the other.
C7_Witness ==
    /\ keyLast[17] = "blur"
    /\ keyLast[65] = "down"
    /\ pressedKeys = {65}

\* C8 as stated: isPointerPressed is greater than 0 if and only if some
\* pointer whose pointerdown was observed has not had its pointerup yet.
C8_PointerPressedIffHeld == isPointerPressed > 0 <=> heldPointers # {}

\* C9 as stated: getSelectedTextElement() never propagates an exception; it
\* returns the parent of the selection's anchor node, or undefined when there
\* is no anchor node.
C9_SelectionFailureSwallowed ==
    (callFn = "getSelectedTextElement" /\ callOut # None) =>
        /\ ~Get(callOut).threw
        /\ Get(callIn).getSelection = "selection" =>
             Get(callOut).node =
                CASE Get(callIn).anchorNode = "null" -> "undefined"
                  [] Get(callIn).anchorNode = "child" -> "anchorParent"
                  [] Get(callIn).anchorNode = "orphan" -> "null"

\* The values of the pairs of ps that have the given name, decoded, in their
\* order of occurrence.
ValuesOf(ps, name) ==
    LET qs == SelectSeq(ps, LAMBDA q : q.name = name)
    IN  [i \in 1 .. Len(qs) |-> decodeURIComponent(qs[i].value).val]

\* C10 as stated: parseQueryString returns an object with exactly the names
\* of the input; a name that occurs once maps to its value as a string, a
\* name that occurs n >= 2 times to the array of its n values in order.
C10_GroupsRepeatedNames ==
    (callFn = "parseQueryString" /\ callOut # None) =>
        LET ps == Get(callIn)
            out == Get(callOut)
        IN  /\ ~out.threw
            /\ DOMAIN out.obj = {ps[i].name : i \in 1 .. Len(ps)}
            /\ \A name \in DOMAIN out.obj :
                 out.obj[name] =
                    IF Len(ValuesOf(ps, name)) = 1
                    THEN [t |-> "string", v |-> ValuesOf(ps, name)[1]]
                    ELSE [t |-> "object", v |-> ValuesOf(ps, name)]

\* The entries the rules of C11 give for one property of the input.
EntriesOf(key, val) ==
    IF val.t \in {"string", "number", "true"}
    THEN <<[name |-> key, file |-> FALSE, value |-> String(val)]>>
    ELSE IF val.t = "file"
    THEN <<[name |-> key, file |-> TRUE, value |-> val.s]>>
    ELSE IF val.t \in {"false", "null", "undefined"}
    THEN <<>>
    ELSE [i \in 1 .. Len(val.items) |->
            [name |-> IF val.t = "array" THEN key \o <<"[", "]">>
                      ELSE key \o <<"[">> \o val.items[i].k \o <<"]">>,
             file |-> val.items[i].v.t = "file",
             value |-> IF val.items[i].v.t = "file" THEN val.items[i].v.s
                       ELSE String(val.items[i].v)]]

RECURSIVE EntriesFrom(_, _)
EntriesFrom(data, i) ==
    IF i > Len(data) THEN <<>>
    ELSE EntriesOf(data[i].k, data[i].v) \o EntriesFrom(data, i + 1)

\* C11: convertToFormData gives, for each key of the input in turn, one entry
\* (key, value) for a string, a number, true or a File, one entry key[] per
\* element of an array in element order, one entry key[innerKey] per property
\* of any other object, and no entry for false, null and undefined.
C11_OneLevel ==
    (callFn = "convertToFormData" /\ callOut # None) =>
        Get(callOut) = EntriesFrom(Get(callIn), 1)

\* An object with a false property and an array of a number and a File has
\* been converted.
C11_Witness ==
    /\ callFn = "convertToFormData"
    /\ callOut # None
    /\ Len(Get(callIn)) = 2
    /\ Get(callIn)[1].v.t = "false"
    /\ Get(callIn)[2].v.t = "array"
    /\ Len(Get(callIn)[2].v.items) = 2
    /\ Get(callOut) =
         <<[name |-> <<"b", "[", "]">>, file |-> FALSE, value |-> <<"0">>],
           [name |-> <<"b", "[", "]">>, file |-> TRUE, value |-> <<"f">>]>>

\* C12 as stated: close() on an open panel, and toggle() on an open panel,
\* never throws, whenever after open() it is called.
C12_CloseNeverThrows ==
    (lastOp.name \in {"close", "toggle"} /\ lastOp.wasOpen) => ~lastOp.threw

\* C13 as stated: while the panel is closed and no timer of open() is
\* pending, no pointerup listener of the 'opening' namespace is bound.
C13_NoListenerOutlivesOpenPhase ==
    (state = "closed" /\ timers = <<>>)
        => ~Listening(LISTENER_NAMESPACES.OPENING, "html", "pointerup")

\* C14 as stated: a closed panel has none of the overflow attributes.
C14_ClosedHasNoOverflowAttributes ==
    state = "closed" =>
        /\ attrs.xdir = "none"
        /\ attrs.ydir = "none"
        /\ ~attrs.ovLeft
        /\ ~attrs.ovRight
        /\ ~attrs.ovTop
        /\ ~attrs.ovBottom
        /\ ~attrs.calculated

\* What C15 has for a side of the overflowing record.
Mirror(offset) == IF offset < 0 THEN Some(offset) ELSE None

\* C15 as stated: when open() has computed the overflow, the overflowing
\* record has an entry for a side if and only if the offset measured for
\* that side is negative, and the entry is that offset.
C15_OverflowingMirrorsGeometry ==
    soa # None =>
        overflowing = Some([left |-> Mirror(Get(soa).offset.left),
                            right |-> Mirror(Get(soa).offset.right),
                            top |-> Mirror(Get(soa).offset.top),
                            bottom |-> Mirror(Get(soa).offset.bottom)])

\* The callbacks so far alternate, onOpen first.
Alternates ==
    \A i \in DOMAIN cbLog :
        cbLog[i] = IF i % 2 = 1 THEN "onOpen" ELSE "onClose"

\* A step that is open() on an open panel or close() on a closed panel
\* changes neither the state, nor the DOM, nor the callbacks invoked.
NoOpStep ==
    (\/ lastOp'.name = "open" /\ lastOp'.wasOpen
     \/ lastOp'.name = "close" /\ ~lastOp'.wasOpen)
        => UNCHANGED <<state, attrs, kids, cbLog, _listeners, _isDismounted>>

\* C16: onOpen and onClose alternate, onOpen first, and open() on an open
\* panel and close() on a closed panel invoke no callback and change neither
\* the state nor the DOM.
C16_CallbacksAlternate == []Alternates /\ [][NoOpStep]_vars

\* close() has been called on a panel that two open phases had left closed.
C16_Witness ==
    /\ cbLog = <<"onOpen", "onClose", "onOpen", "onClose">>
    /\ lastOp.name = "close"
    /\ ~lastOp.wasOpen
    /\ state = "closed"

\* The last task was a window resize, or a scroll outside the node, that
\* found the panel open and dismounted.
DismissedByWindow ==
    /\ lastOp.wasOpen
    /\ lastOp.wasDismounted
    /\ \/ lastOp.name = "resize"
       \/ lastOp.name = "scroll" /\ lastOp.target \notin {"node", "inner"}

\* While the panel is open and dismounted its resize and scroll listeners
\* are bound, and a scroll inside the node leaves it open and dismounted.
ListensWhileDismounted ==
    /\ (state = "open" /\ _isDismounted = Some(TRUE)) =>
         /\ Listening(LISTENER_NAMESPACES.DISMOUNTING, "window", "resize")
         /\ Listening(LISTENER_NAMESPACES.DISMOUNTING, "window", "scroll")
    /\ (lastOp.name = "scroll" /\ lastOp.wasOpen /\ lastOp.wasDismounted
            /\ lastOp.target \in {"node", "inner"})
         => state = "open" /\ _isDismounted = Some(TRUE)

\* C17 as stated: a dismounted open panel is closed and remounted by every
\* window resize and by every scroll whose target is outside the node, and
\* left open and dismounted by a scroll whose target is inside the node.
C17_ClosedAndRemounted ==
    /\ ListensWhileDismounted
    /\ DismissedByWindow => state = "closed" /\ _isDismounted = Some(FALSE)

\* What holds of these events: every such resize and scroll closes the panel,
\* and remounts it when the avatar is still in the document.
C17_ClosedAndRemountedWhileAvatarInDocument ==
    /\ ListensWhileDismounted
    /\ DismissedByWindow => state = "closed"
    /\ (DismissedByWindow /\ lastOp.avatarWasIn)
         => _isDismounted = Some(FALSE) /\ Restored

\* A scroll of the body has closed and remounted a dismounted panel.
C17_Witness ==
    /\ DismissedByWindow
    /\ lastOp.name = "scroll"
    /\ lastOp.target = "body"
    /\ lastOp.avatarWasIn
    /\ state = "closed"
    /\ _isDismounted = Some(FALSE)
    /\ Restored

\* C18 as stated: when a dismounted open panel is closed while the avatar is
\* not in the document, the node is removed from its parent, _isDismounted
\* becomes false, the resize and scroll listeners are unbound and onClose is
\* invoked; the panel is never both closed and dismounted.
C18_CloseCompletesWithoutAvatar ==
    /\ (lastOp.wasOpen /\ lastOp.wasDismounted /\ ~lastOp.avatarWasIn
            /\ state = "closed")
         => /\ parentNode(kids, "node") = None
            /\ _isDismounted = Some(FALSE)
            /\ ~Listening(LISTENER_NAMESPACES.DISMOUNTING, "window", "resize")
            /\ ~Listening(LISTENER_NAMESPACES.DISMOUNTING, "window", "scroll")
            /\ cbLog # <<>>
            /\ cbLog[Len(cbLog)] = "onClose"
    /\ ~(state = "closed" /\ _isDismounted = Some(TRUE))

\* C19: idleTime is IDLE_INTERVAL times the number of interval ticks since
\* the last keydown, pointermove, pointerdown, document scroll or window
\* resize, or since construction; keyup, pointerup and blur do not change it.
C19_IdleTime == idleTime = IDLE_INTERVAL * ticksSince

\* Two ticks have passed since the last activity, a pointer is down and a
\* key has been released.
C19_Witness ==
    /\ ticksSince = 2
    /\ idleTime = 2 * IDLE_INTERVAL
    /\ heldPointers # {}
    /\ \E k \in Keys : keyLast[k] = "up"

====
